---- MODULE Spec2Model ----
(***************************************************************************)
(* EmailManager: the daily report pipeline (fetch -> summarize -> assemble *)
(* -> send), the SMTP sender and the HTTP endpoints of main.py.            *)
(*                                                                         *)
(* Python values are modelled with their type: a str is a sequence of      *)
(* tokens (a token is one character, or one literal chunk of a format      *)
(* string), None is a value of its own, a dict is a function from the keys *)
(* it holds to values.                                                     *)
(***************************************************************************)
EXTENDS Integers, Sequences, FiniteSets, TLC

(***************************************************************************)
(* Bounds of the model.                                                    *)
(***************************************************************************)
\* the longest batch of messages a fetch returns / a batch call receives
MaxBatch == 3

\* content[:200] in summarizer.py
SummaryPrefixLen == 200

(***************************************************************************)
(* Python values.                                                          *)
(***************************************************************************)
PyNone == [t |-> "NoneType"]

PyStr(s) == [t |-> "str", v |-> s]

IsStr(x) == x.t = "str"

\* dict.get(key, default)
get(d, key, default) == IF key \in DOMAIN d THEN d[key] ELSE default

Min(a, b) == IF a < b THEN a ELSE b

\* s[:n] of a str
Slice(s, n) == SubSeq(s, 1, Min(n, Len(s)))

\* n copies of the character c
Rep(c, n) == [i \in 1..n |-> c]

\* str.strip(): leading and trailing whitespace removed
RECURSIVE LStrip(_)
LStrip(s) == IF s # <<>> /\ Head(s) = " " THEN LStrip(Tail(s)) ELSE s

RECURSIVE RStrip(_)
RStrip(s) ==
    IF s # <<>> /\ s[Len(s)] = " " THEN RStrip(SubSeq(s, 1, Len(s) - 1)) ELSE s

Strip(s) == LStrip(RStrip(s))

\* str.replace(tok, ""): every occurrence of the token removed
RECURSIVE Remove(_, _)
Remove(s, tok) ==
    IF s = <<>> THEN <<>>
    ELSE IF Head(s) = tok THEN Remove(Tail(s), tok)
    ELSE <<Head(s)>> \o Remove(Tail(s), tok)

\* a returned value, or an exception leaving the call
Ret(x) == [raised |-> FALSE, value |-> x]

Raise(e) == [raised |-> TRUE, exc |-> e]

(***************************************************************************)
(* summarizer.py                                                           *)
(***************************************************************************)
LLMUnavailable == "Unable to summarize - LLM not available. Original content: "

SummarizationFailed == "Summarization failed. Original content: "

BatchError == "Error occurred during summarization: "

\* what the language model does on one call: it raises, or it answers
Responses ==
    { <<"w">>,
      <<" ", "Summary:", " ", "w", "Summary:", " ">> }

LLMOutcomes == {[kind |-> "raise"]} \cup {[kind |-> "ok", response |-> r] : r \in Responses}

\* summarize_email with the except clause returning an empty summary: the
\* failure of a model call would leave no trace in the digest
summarize_email_silent(llm_set, subject, content, out) ==
    IF ~llm_set
    THEN IF IsStr(content)
         THEN Ret(<<LLMUnavailable>> \o Slice(content.v, SummaryPrefixLen) \o <<"...">>)
         ELSE Raise("TypeError")
    ELSE IF out.kind = "ok"
         THEN Ret(Strip(Remove(Strip(out.response), "Summary:")))
         ELSE Ret(<<>>)

\* summarize_email quoting the whole content in place of content[:200]
summarize_email_untruncated(llm_set, subject, content, out) ==
    IF ~IsStr(content) THEN Raise("TypeError")
    ELSE IF ~llm_set THEN Ret(<<LLMUnavailable>> \o content.v \o <<"...">>)
    ELSE IF out.kind = "ok" THEN Ret(Strip(Remove(Strip(out.response), "Summary:")))
    ELSE Ret(<<SummarizationFailed>> \o content.v \o <<"...">>)

\* EmailSummarizer.summarize_email; out is what the model call does if made
summarize_email(llm_set, subject, content, out) ==
    IF ~llm_set
    THEN IF IsStr(content)
         THEN Ret(<<LLMUnavailable>> \o Slice(content.v, SummaryPrefixLen) \o <<"...">>)
         ELSE Raise("TypeError")
    ELSE IF out.kind = "ok"
         THEN Ret(Strip(Remove(Strip(out.response), "Summary:")))
         ELSE IF IsStr(content)
              THEN Ret(<<SummarizationFailed>> \o Slice(content.v, SummaryPrefixLen)
                       \o <<"...">>)
              ELSE Raise("TypeError")

\* the loop body with a failed message skipped instead of given a fallback
\* digest
BatchEntryDropsOnError(llm_set, email, out) ==
    LET subject == get(email, "subject", PyStr(<<"No Subject">>))
        content == get(email, "snippet", get(email, "content", PyStr(<<>>)))
        r == summarize_email(llm_set, subject, content, out)
    IN  IF IsStr(subject) /\ ~r.raised /\ ~(llm_set /\ out.kind = "raise")
        THEN << [subject |-> subject, summary |-> r.value] >>
        ELSE << >>

\* the loop body with the fallback entry given the subject 'No Subject' when
\* the message has none
BatchEntryFallbackNoSubject(llm_set, email, out) ==
    LET subject == get(email, "subject", PyStr(<<"No Subject">>))
        content == get(email, "snippet", get(email, "content", PyStr(<<>>)))
        r == summarize_email(llm_set, subject, content, out)
    IN  IF ~IsStr(subject)
        THEN << [subject |-> subject, summary |-> <<BatchError, "TypeError">>] >>
        ELSE IF r.raised
        THEN << [subject |-> subject, summary |-> <<BatchError, r.exc>>] >>
        ELSE << [subject |-> subject, summary |-> r.value] >>

\* the body of the loop of summarize_emails_batch for one message: the digest
\* appended to summaries
BatchEntry(llm_set, email, out) ==
    LET subject == get(email, "subject", PyStr(<<"No Subject">>))
        content == get(email, "snippet", get(email, "content", PyStr(<<>>)))
        r == summarize_email(llm_set, subject, content, out)
    IN  IF ~IsStr(subject)
        THEN \* subject[:50] raises in the log line, before summarize_email
             << [subject |-> get(email, "subject", PyStr(<<"Error processing email">>)),
                 summary |-> <<BatchError, "TypeError">>] >>
        ELSE IF r.raised
        THEN << [subject |-> get(email, "subject", PyStr(<<"Error processing email">>)),
                 summary |-> <<BatchError, r.exc>>] >>
        ELSE << [subject |-> subject, summary |-> r.value] >>

\* EmailSummarizer.summarize_emails_batch; outs[i] is what the model call for
\* the i-th message does
RECURSIVE summarize_emails_batch(_, _, _)
summarize_emails_batch(llm_set, es, outs) ==
    IF es = <<>> THEN <<>>
    ELSE BatchEntry(llm_set, Head(es), Head(outs))
         \o summarize_emails_batch(llm_set, Tail(es), Tail(outs))

(***************************************************************************)
(* email_utils.py                                                          *)
(***************************************************************************)
\* the exception classes the templating and SMTP calls raise, each with its
\* base class (smtplib: SMTPException derives from OSError)
Parent ==
    [ SMTPAuthenticationError |-> "SMTPResponseException",
      SMTPResponseException   |-> "SMTPException",
      SMTPRecipientsRefused   |-> "SMTPException",
      SMTPConnectError        |-> "SMTPResponseException",
      SMTPNotSupportedError   |-> "SMTPException",
      SMTPDataError           |-> "SMTPResponseException",
      SMTPException           |-> "OSError",
      OSError                 |-> "Exception",
      TypeError               |-> "Exception",
      TemplateNotFound        |-> "Exception",
      AttributeError          |-> "Exception",
      HTTPException           |-> "Exception",
      Exception               |-> "BaseException" ]

\* issubclass(c, base)
RECURSIVE IsSubclass(_, _)
IsSubclass(c, base) ==
    \/ c = base
    \/ c \in DOMAIN Parent /\ IsSubclass(Parent[c], base)

\* what the template loader and the SMTP server do during one send: at most
\* one step of the body fails (step "none": none does) with the exception exc,
\* and the QUIT that SMTP.__exit__ issues when the with block is left may
\* fail too
SendEnvs ==
    { [step |-> "none",         exc |-> "none",                    quit |-> "ok"],
      [step |-> "none",         exc |-> "none",                    quit |-> "SMTPResponseException"],
      [step |-> "template",     exc |-> "TemplateNotFound",        quit |-> "ok"],
      [step |-> "connect",      exc |-> "OSError",                 quit |-> "ok"],
      [step |-> "starttls",     exc |-> "SMTPNotSupportedError",   quit |-> "ok"],
      [step |-> "login",        exc |-> "SMTPAuthenticationError", quit |-> "ok"],
      [step |-> "login",        exc |-> "TypeError",               quit |-> "ok"],
      [step |-> "send_message", exc |-> "SMTPRecipientsRefused",   quit |-> "ok"],
      [step |-> "login",        exc |-> "SMTPAuthenticationError",
       quit |-> "SMTPResponseException"],
      [step |-> "send_message", exc |-> "SMTPRecipientsRefused",
       quit |-> "SMTPResponseException"] }

\* with no EMAIL_ADDRESS / EMAIL_PASSWORD, login(None, None) cannot succeed: the
\* send fails at login or before it
SendEnvsFor(creds_set) ==
    IF creds_set THEN SendEnvs
    ELSE { e \in SendEnvs : e.step \in {"template", "connect", "starttls", "login"} }

\* the except clauses without the last one
SendHandlersNoCatchAll ==
    << [cls |-> "SMTPAuthenticationError", kind |-> "auth"],
       [cls |-> "SMTPRecipientsRefused",   kind |-> "recipient"],
       [cls |-> "SMTPException",           kind |-> "smtp"] >>

\* the except clauses of send_email, in order, each with the message it returns
SendHandlers ==
    << [cls |-> "SMTPAuthenticationError", kind |-> "auth"],
       [cls |-> "SMTPRecipientsRefused",   kind |-> "recipient"],
       [cls |-> "SMTPException",           kind |-> "smtp"],
       [cls |-> "Exception",               kind |-> "unexpected"] >>

ErrorMessage(kind, to_email, exc) ==
    CASE kind = "auth" -> <<"SMTP authentication failed. Check email credentials.">>
      [] kind = "recipient" -> <<"Invalid recipient email address: ">> \o to_email
      [] kind = "smtp" -> <<"SMTP error occurred: ", exc>>
      [] kind = "unexpected" -> <<"Unexpected error sending email: ", exc>>
      [] kind = "template" -> <<"Template rendering failed: ", exc>>

\* the first except clause that matches exc, 0 when none does
RECURSIVE FirstHandler(_, _, _)
FirstHandler(handlers, exc, i) ==
    IF i > Len(handlers) THEN 0
    ELSE IF IsSubclass(exc, handlers[i].cls) THEN i
    ELSE FirstHandler(handlers, exc, i + 1)

\* the steps of the with block that ran to completion before the block was left
StepsDone(env) ==
    CASE env.step = "none"         -> {"connect", "starttls", "login", "send_message"}
      [] env.step = "send_message" -> {"connect", "starttls", "login"}
      [] env.step = "login"        -> {"connect", "starttls"}
      [] env.step = "starttls"     -> {"connect"}
      [] OTHER                     -> {}

\* the exception that leaves the with block: the one raised in its body, unless
\* the QUIT of SMTP.__exit__ raises and replaces it ("none": the block ends
\* normally)
BlockException(env) ==
    IF "connect" \in StepsDone(env) /\ env.quit # "ok" THEN env.quit ELSE env.exc

\* send_email going on to the SMTP block with the body as given when the
\* template cannot be rendered
send_email_plain_fallback(to_email, template_name, template_vars, env) ==
    LET call == [to_email |-> to_email, template_name |-> template_name,
                 template_vars |-> template_vars, env |-> env]
        e == IF env.step = "template" THEN "none" ELSE BlockException(env)
        done == IF env.step = "template"
                THEN {"connect", "starttls", "login", "send_message"}
                ELSE StepsDone(env)
        h == FirstHandler(SendHandlers, e, 1)
    IN  IF e = "none"
        THEN call @@ [rendered |-> FALSE, steps |-> done, raised |-> FALSE,
                      result |-> [success |-> TRUE,
                                  message |-> <<"Email sent successfully to ">> \o to_email]]
        ELSE call @@ [rendered |-> FALSE, steps |-> done, raised |-> FALSE,
                      result |-> [success |-> FALSE,
                                  message |-> ErrorMessage(SendHandlers[h].kind, to_email, e)]]

\* EmailSender.send_email; the outcome of the call with what it did on the way:
\* rendered (the template was rendered), steps (SMTP steps completed),
\* result (the dict returned) or raised (an exception left the call)
send_email(to_email, template_name, template_vars, env) ==
    LET use_template == template_name # <<>> /\ DOMAIN template_vars # {}
        call == [to_email |-> to_email, template_name |-> template_name,
                 template_vars |-> template_vars, env |-> env]
    IN  IF use_template /\ env.step = "template"
        THEN call @@ [rendered |-> FALSE, steps |-> {}, raised |-> FALSE,
                      result |-> [success |-> FALSE,
                                  message |-> ErrorMessage("template", to_email, env.exc)]]
        ELSE LET e == IF env.step = "template" THEN "none" ELSE BlockException(env)
                 done == IF env.step = "template"
                         THEN {"connect", "starttls", "login", "send_message"}
                         ELSE StepsDone(env)
                 h == FirstHandler(SendHandlers, e, 1)
             IN  IF e = "none"
                 THEN call @@ [rendered |-> use_template, steps |-> done, raised |-> FALSE,
                               result |-> [success |-> TRUE,
                                           message |-> <<"Email sent successfully to ">>
                                                       \o to_email]]
                 ELSE IF h = 0
                 THEN call @@ [rendered |-> use_template, steps |-> done, raised |-> TRUE,
                               exc |-> e]
                 ELSE call @@ [rendered |-> use_template, steps |-> done, raised |-> FALSE,
                               result |-> [success |-> FALSE,
                                           message |-> ErrorMessage(SendHandlers[h].kind,
                                                                    to_email, e)]]

\* send_html_report handing the template the digests without the rest of the
\* report
send_html_report_digests_only(to_email, report, env) ==
    send_email(to_email, <<"summary_report.html">>, [summaries |-> report.summaries], env)

\* EmailSender.send_html_report
send_html_report(to_email, report, env) ==
    send_email(to_email, <<"summary_report.html">>, report, env)

(***************************************************************************)
(* gmail_utils.py                                                          *)
(***************************************************************************)
\* what the file at token_path holds: nothing ("missing"), bytes pickle.load
\* rejects ("unreadable"), credentials that are valid ("valid"), expired with a
\* refresh token ("expired"), neither valid nor refreshable ("invalid"), or a
\* pickled object that is truthy and whose attribute valid cannot be read
\* ("foreign": not a Credentials object, or one pickled by an incompatible
\* version of the library)
TokenFiles == {"missing", "unreadable", "valid", "expired", "invalid", "foreign"}

\* what the outside does during one _authenticate: the refresh succeeds, the
\* credentials file exists, the login flow succeeds, the token file can be
\* written, build() succeeds
AuthEnvs ==
    [refresh : BOOLEAN, credfile : BOOLEAN, flow : BOOLEAN, save : BOOLEAN,
     build : BOOLEAN]

\* the end of _authenticate: the credentials are saved when they were not valid
\* as loaded (save_needed), then the service is built from them
AuthBuild(token, creds, save_needed, a) ==
    [raised |-> FALSE,
     ok |-> a.build,
     service |-> IF a.build THEN creds ELSE "None",
     token_file |-> IF save_needed /\ a.save THEN creds ELSE token,
     flow_run |-> FALSE]

\* GmailFetcher._authenticate on a fetcher whose service is None
authenticate(token, a) ==
    LET loaded == IF token \in {"missing", "unreadable"} THEN "None" ELSE token
        failed == [raised |-> FALSE, ok |-> FALSE, service |-> "None",
                   token_file |-> token, flow_run |-> FALSE]
    IN  IF loaded = "foreign"
        THEN \* creds.valid raises AttributeError, outside every try
             [raised |-> TRUE, exc |-> "AttributeError", ok |-> FALSE, service |-> "None",
              token_file |-> token, flow_run |-> FALSE]
        ELSE IF loaded = "valid"
        THEN AuthBuild(token, "valid", FALSE, a)
        ELSE LET creds == IF loaded = "expired"
                          THEN (IF a.refresh THEN "valid" ELSE "None")
                          ELSE loaded
             IN  IF creds = "None"
                 THEN IF ~a.credfile THEN failed
                      ELSE IF ~a.flow THEN [failed EXCEPT !.flow_run = TRUE]
                      ELSE [AuthBuild(token, "valid", TRUE, a) EXCEPT !.flow_run = TRUE]
                 ELSE AuthBuild(token, creds, TRUE, a)

\* a message of the server's listing: its headers hold a Subject or not, and
\* messages().get() on it succeeds or raises
ServerKinds == {"subject", "bare", "unreadable"}

\* the dict fetch_recent_emails appends for the i-th listed message
Extract(kind, i) ==
    [subject |-> IF kind = "subject" THEN PyStr(<<"S", i>>) ELSE PyStr(<<"No Subject">>),
     snippet |-> IF kind = "subject" THEN PyStr(Rep("c", SummaryPrefixLen) \o <<i>>)
                 ELSE PyStr(<<"No content available">>),
     sender |-> IF kind = "subject" THEN PyStr(<<"f", i>>) ELSE PyStr(<<"Unknown Sender">>),
     message_id |-> PyStr(<<i>>)]

\* the loop with one try around it instead of one per message: a message
\* whose extraction raises empties the batch
ExtractAllOrNothing(listed, i) ==
    IF \E j \in i..Len(listed) : listed[j] = "unreadable" THEN <<>>
    ELSE [j \in 1..(Len(listed) - i + 1) |->
            Extract(listed[j + i - 1], ToString(j + i - 1))]

\* the loop over the listed messages, from the i-th on: a message whose
\* extraction raises is skipped
RECURSIVE ExtractAll(_, _)
ExtractAll(listed, i) ==
    IF i > Len(listed) THEN <<>>
    ELSE (IF listed[i] = "unreadable" THEN <<>> ELSE <<Extract(listed[i], ToString(i))>>)
         \o ExtractAll(listed, i + 1)

\* what the mailbox does during one fetch: messages().list() succeeds with a
\* listing, or raises
ListEnvs(n) ==
    {[list |-> "raise", listed |-> <<>>]}
    \cup {[list |-> "ok", listed |-> l] : l \in UNION {[1..k -> ServerKinds] : k \in 0..n}}

\* GmailFetcher.fetch_recent_emails: the emails returned (or the exception that
\* leaves the call), the fetcher's service and the token file afterwards
fetch_recent_emails(svc, token, a, m) ==
    LET auth == IF svc = "None" THEN authenticate(token, a)
                ELSE [raised |-> FALSE, ok |-> TRUE, service |-> svc,
                      token_file |-> token, flow_run |-> FALSE]
        out(emails, failed) ==
            [raised |-> FALSE, emails |-> emails, failed |-> failed,
             authenticated |-> svc = "None",
             service |-> auth.service, token_file |-> auth.token_file]
    IN  IF auth.raised
        THEN [raised |-> TRUE, exc |-> auth.exc, emails |-> <<>>, failed |-> TRUE,
              authenticated |-> TRUE,
              service |-> auth.service, token_file |-> auth.token_file]
        ELSE IF ~auth.ok THEN out(<<>>, TRUE)
        ELSE IF m.list = "raise" \/ auth.service = "invalid" THEN out(<<>>, TRUE)
        ELSE out(ExtractAll(m.listed, 1), FALSE)

(***************************************************************************)
(* main.py: the request model and the state of the application             *)
(***************************************************************************)
\* the longest to_email of a request
MaxAddrLen == 5

AddrChars == {"a", "@", "."}

Addresses == UNION {[1..n -> AddrChars] : n \in 0..MaxAddrLen}

\* the positions of the character c in s
Positions(s, c) == {i \in 1..Len(s) : s[i] = c}

\* a dot-separated part of an address: not empty, no dot first or last, no two
\* dots in a row
DotAtom(s) ==
    /\ s # <<>>
    /\ s[1] # "." /\ s[Len(s)] # "."
    /\ \A i \in 1..(Len(s) - 1) : ~(s[i] = "." /\ s[i + 1] = ".")

\* to_email declared as a plain str: every value validates
EmailStrAcceptsAll(addr) == TRUE

\* EmailRequest.to_email: EmailStr accepts local@domain with one @, a
\* dot-atom before it and a dotted domain name after it
EmailStr(addr) ==
    /\ Cardinality(Positions(addr, "@")) = 1
    /\ LET at == CHOOSE i \in Positions(addr, "@") : TRUE
           local == SubSeq(addr, 1, at - 1)
           domain == SubSeq(addr, at + 1, Len(addr))
       IN  /\ DotAtom(local)
           /\ DotAtom(domain)
           /\ Positions(domain, ".") # {}

\* bool(x) is False: None, or an empty str
Falsy(x) == x = PyNone \/ (IsStr(x) /\ x.v = <<>>)

VARIABLES
    report_recipient,   \* os.getenv('REPORT_RECIPIENT_EMAIL')
    smtp_credentials,   \* EMAIL_ADDRESS and EMAIL_PASSWORD are both set
    llm,                \* email_summarizer.llm is not None
    service,            \* gmail_fetcher.service: "None", or the credentials it was built from
    token_file,         \* the file at gmail_fetcher.token_path
    handler,            \* the handler running, or the last one that ran
    pc,                 \* where that handler is
    fetched,            \* what its fetch_recent_emails call did
    emails,             \* the list summarize_emails_batch receives
    outcomes,           \* what the model call for each message did
    summaries,          \* the list summarize_emails_batch returns
    report_data,        \* the report assembled, None before
    calls,              \* the send_email calls the handler made, with their outcomes
    request,            \* the body of the HTTP request handled, None when there is none
    response,           \* the HTTP response, None while there is none
    now,                \* seconds since the application started
    next_run_time,      \* the scheduler's jobs: id -> the time the job is due next
    runs,               \* id -> how many times the job's coroutine was started
    ready,              \* what the event loop has to start: jobs that came due, a
                        \* POST /trigger-report/ that arrived
    in_progress         \* daily_email_report coroutines started and not finished

vars == << report_recipient, smtp_credentials, llm, service, token_file, handler, pc,
           fetched, emails, outcomes, summaries, report_data, calls, request, response,
           now, next_run_time, runs, ready, in_progress >>

\* the scheduler
timers == << now, next_run_time, runs >>

\* the scheduler and the event loop
loop == << now, next_run_time, runs, ready, in_progress >>

\* the ids of the jobs lifespan adds
JobIds == {"daily_email_report", "initial_report"}

config == << report_recipient, smtp_credentials, llm >>

NoFetch == [raised |-> FALSE, exc |-> "none", failed |-> FALSE, authenticated |-> FALSE,
            listed |-> <<>>, done |-> FALSE]

ReportRecipients == {PyNone, PyStr(<<"reports@example.com">>)}

\* the module imported: configuration read from the environment, the
\* singletons constructed, the scheduler without a job, no handler run yet
Init ==
    /\ report_recipient \in ReportRecipients
    /\ smtp_credentials \in BOOLEAN
    /\ llm \in BOOLEAN
    /\ service = "None"
    /\ token_file \in TokenFiles
    /\ handler = "none"
    /\ pc = "idle"
    /\ fetched = NoFetch
    /\ emails = <<>>
    /\ outcomes = <<>>
    /\ summaries = <<>>
    /\ report_data = PyNone
    /\ calls = <<>>
    /\ request = PyNone
    /\ response = PyNone
    /\ now = 0
    /\ next_run_time = << >>
    /\ runs = [j \in JobIds |-> 0]
    /\ ready = {}
    /\ in_progress = 0

(***************************************************************************)
(* main.py: daily_email_report, run by the scheduler's job or awaited by    *)
(* trigger_manual_report. The handlers are coroutines without a suspension *)
(* point, so one runs to its end before the event loop starts another.     *)
(***************************************************************************)
Triggers == {"scheduler", "manual"}

\* the model answers of the calls of one pipeline run
RunOutcomes == {[kind |-> "raise"]} \cup {[kind |-> "ok", response |-> <<" ", "Summary:", "w">>]}

\* a handler starts: what the previous one left behind is gone
Fresh ==
    /\ fetched' = NoFetch
    /\ emails' = <<>>
    /\ outcomes' = <<>>
    /\ summaries' = <<>>
    /\ report_data' = PyNone
    /\ calls' = <<>>

\* the except clause of daily_email_report: the exception is logged and does
\* not leave the coroutine
ReportCatches(e) == IsSubclass(e, "Exception")

\* what trigger_manual_report answers once the awaited daily_email_report is
\* over; exc: the exception that left daily_email_report, "none" when it
\* returned
ManualResponse(exc) ==
    IF exc # "none" /\ IsSubclass(exc, "Exception")
    THEN [status |-> 500, detail |-> <<"Error triggering report: ", exc>>]
    ELSE [status |-> 200, success |-> TRUE,
          message |-> <<"Report generation triggered successfully">>]

\* the end of a run in which the exception exc was raised ("none": it
\* returned): the response of the manual trigger, None for the scheduler's job
EndReport(who, exc) ==
    IF who = "manual"
    THEN ManualResponse(IF exc = "none" \/ ReportCatches(exc) THEN "none" ELSE exc)
    ELSE PyNone

\* daily_email_report suspended after the fetch (an await that yields to the
\* event loop between the fetch and the summarization)
SuspendsAfterFetch == {"summarize"}

\* the places of daily_email_report at which it yields to the event loop: it
\* awaits nothing, and the calls it makes block
SuspensionPoints == {}

\* the event loop can start a coroutine: none is running, or the one running
\* is suspended
LoopFree == pc = "idle" \/ pc \in SuspensionPoints

\* the event loop starts daily_email_report for the scheduler's job, or
\* trigger_manual_report, which awaits it
Begin(who) ==
    /\ LoopFree
    /\ handler' = who
    /\ pc' = "fetch"
    /\ request' = IF who = "manual" THEN [path |-> "/trigger-report/"] ELSE PyNone
    /\ response' = PyNone
    /\ Fresh
    /\ in_progress' = in_progress + 1
    /\ UNCHANGED << config, service, token_file >>

\* the scheduler fires a job, or POST /trigger-report/ arrives, while the event
\* loop is free: the run starts at once
StartReport(who) ==
    /\ Begin(who)
    /\ UNCHANGED << timers, ready >>

\* emails = gmail_fetcher.fetch_recent_emails(hours=24); an exception leaving
\* it ends the run in the except clause of daily_email_report
Fetch ==
    /\ pc = "fetch"
    /\ \E a \in AuthEnvs, m \in ListEnvs(MaxBatch) :
         LET f == fetch_recent_emails(service, token_file, a, m)
         IN  /\ fetched' = [raised |-> f.raised, exc |-> IF f.raised THEN f.exc ELSE "none",
                            failed |-> f.failed,
                            authenticated |-> f.authenticated,
                            listed |-> IF f.failed THEN <<>> ELSE m.listed,
                            done |-> TRUE]
             /\ emails' = f.emails
             /\ service' = f.service
             /\ token_file' = f.token_file
             /\ pc' = IF f.raised THEN "idle" ELSE "summarize"
             /\ response' = IF f.raised THEN EndReport(handler, f.exc) ELSE response
             /\ in_progress' = IF f.raised THEN in_progress - 1 ELSE in_progress
    /\ UNCHANGED << config, handler, outcomes, summaries, report_data, calls, request,
                    timers, ready >>

\* the report with the digests of failed summarizations left out of the count
ReportDataCountsSummarized(es, sums) ==
    [date |-> "today", timestamp |-> "now",
     total_emails |-> Cardinality({i \in 1..Len(sums) :
                                     sums[i].summary[1] # SummarizationFailed}),
     summaries |-> sums]

\* report_data = {...}
ReportData(es, sums) ==
    [date |-> "today", timestamp |-> "now", total_emails |-> Len(es), summaries |-> sums]

\* summaries = [] if not emails else email_summarizer.summarize_emails_batch(emails),
\* then the report is assembled
Summarize ==
    /\ pc = "summarize"
    /\ \E outs \in [1..Len(emails) -> RunOutcomes] :
         LET sums == IF emails = <<>> THEN <<>>
                     ELSE summarize_emails_batch(llm, emails, outs)
         IN  /\ outcomes' = (IF llm THEN outs
                             ELSE [i \in 1..Len(emails) |-> [kind |-> "none"]])
             /\ summaries' = sums
             /\ report_data' = ReportData(emails, sums)
    /\ pc' = "send"
    /\ UNCHANGED << config, service, token_file, handler, fetched, emails, calls, request,
                    response, loop >>

\* the run going on to the send without the recipient check
RecipientUnchecked(recipient) == TRUE

\* the recipient check of daily_email_report: the run goes on to the send
RecipientOk(recipient) == ~Falsy(recipient)

\* if not report_recipient: return
NoRecipient ==
    /\ pc = "send"
    /\ ~RecipientOk(report_recipient)
    /\ pc' = "idle"
    /\ response' = EndReport(handler, "none")
    /\ in_progress' = in_progress - 1
    /\ UNCHANGED << config, service, token_file, handler, fetched, emails, outcomes,
                    summaries, report_data, calls, request, timers, ready >>

\* result = email_sender.send_html_report(report_recipient, report_data); the
\* result is logged and the run ends
SendReport ==
    /\ pc = "send"
    /\ RecipientOk(report_recipient)
    /\ \E env \in SendEnvsFor(smtp_credentials) :
         LET to == IF IsStr(report_recipient) THEN report_recipient.v ELSE <<"None">>
             c == send_html_report(to, report_data, env)
         IN  /\ calls' = Append(calls, c)
             /\ response' = EndReport(handler, IF c.raised THEN c.exc ELSE "none")
    /\ pc' = "idle"
    /\ in_progress' = in_progress - 1
    /\ UNCHANGED << config, service, token_file, handler, fetched, emails, outcomes,
                    summaries, report_data, request, timers, ready >>

Next ==
    \/ \E who \in Triggers : StartReport(who)
    \/ Fetch
    \/ Summarize
    \/ NoRecipient
    \/ SendReport

Spec == Init /\ [][Next]_vars

(***************************************************************************)
(* main.py: POST /send-email/                                              *)
(***************************************************************************)
Requests == {[to_email |-> a, subject |-> <<"Test Email">>, body |-> <<"body">>] :
               a \in Addresses}

\* str(e) of the exception caught by the handler's except clause
\* (HTTPException.__str__ gives "<status_code>: <detail>")
ExcStr(e) == IF e.cls = "HTTPException" THEN <<"500", ": ">> \o e.detail ELSE <<e.cls>>

\* the endpoint answering a failed send without the text of the exception
SendEmailResponseDropsDetail(c) ==
    IF ~c.raised /\ c.result.success
    THEN [status |-> 200, success |-> TRUE, message |-> c.result.message]
    ELSE [status |-> 500, detail |-> <<"Internal server error: ">>]

\* the body of the send_email endpoint after the call c of email_sender: the
\* HTTPException raised for a failed send is raised inside the try, so the
\* handler's own except clause catches it and raises the one that is answered
SendEmailResponse(c) ==
    IF ~c.raised /\ c.result.success
    THEN [status |-> 200, success |-> TRUE, message |-> c.result.message]
    ELSE LET e == IF c.raised THEN [cls |-> c.exc]
                  ELSE [cls |-> "HTTPException", detail |-> c.result.message]
         IN  [status |-> 500, detail |-> <<"Internal server error: ">> \o ExcStr(e)]

\* the request body does not validate as an EmailRequest: FastAPI answers 422
\* and the endpoint function is not called
RejectSendEmail ==
    /\ pc = "idle"
    /\ \E req \in Requests :
         /\ ~EmailStr(req.to_email)
         /\ request' = [path |-> "/send-email/"] @@ req
    /\ handler' = "send_email"
    /\ Fresh
    /\ response' = [status |-> 422, detail |-> <<"value is not a valid email address">>]
    /\ UNCHANGED << config, service, token_file, pc, loop >>

\* the endpoint function send_email, whole
PostSendEmail ==
    /\ pc = "idle"
    /\ \E req \in Requests, env \in SendEnvsFor(smtp_credentials) :
         /\ EmailStr(req.to_email)
         /\ request' = [path |-> "/send-email/"] @@ req
         /\ LET c == send_email(req.to_email, <<"email_template.html">>,
                                [subject |-> req.subject, body |-> req.body], env)
            IN  /\ calls' = <<c>>
                /\ response' = SendEmailResponse(c)
    /\ handler' = "send_email"
    /\ fetched' = NoFetch
    /\ emails' = <<>>
    /\ outcomes' = <<>>
    /\ summaries' = <<>>
    /\ report_data' = PyNone
    /\ UNCHANGED << config, service, token_file, pc, loop >>

\* the application with requests to /send-email/ alone
InitApi ==
    /\ Init
    /\ report_recipient = PyNone
    /\ llm = FALSE
    /\ token_file = "missing"

NextApi == RejectSendEmail \/ PostSendEmail

SpecApi == InitApi /\ [][NextApi]_vars

(***************************************************************************)
(* summarize_emails_batch as a function of any list of dicts               *)
(***************************************************************************)
\* the dicts a batch is drawn from: with and without a subject, with a snippet
\* shorter and longer than the prefix kept, with content in place of the
\* snippet, with None for a value
BatchDicts ==
    { [subject |-> PyStr(<<"A">>), snippet |-> PyStr(<<"x">>)],
      [subject |-> PyStr(<<"B">>), snippet |-> PyStr(Rep("y", SummaryPrefixLen + 1))],
      [snippet |-> PyStr(<<"z">>)],
      [subject |-> PyStr(<<"C">>), content |-> PyStr(<<"k">>)],
      [subject |-> PyNone, snippet |-> PyStr(<<"n">>)],
      [subject |-> PyStr(<<"D">>), snippet |-> PyNone],
      [snippet |-> PyNone] }

InitBatch ==
    /\ report_recipient = PyNone
    /\ smtp_credentials = FALSE
    /\ llm \in BOOLEAN
    /\ service = "None"
    /\ token_file = "missing"
    /\ handler = "none"
    /\ pc = "batch"
    /\ fetched = NoFetch
    /\ emails \in UNION {[1..n -> BatchDicts] : n \in 0..MaxBatch}
    /\ outcomes = <<>>
    /\ summaries = <<>>
    /\ report_data = PyNone
    /\ calls = <<>>
    /\ request = PyNone
    /\ response = PyNone
    /\ now = 0
    /\ next_run_time = << >>
    /\ runs = [j \in JobIds |-> 0]
    /\ ready = {}
    /\ in_progress = 0

\* summaries = email_summarizer.summarize_emails_batch(emails)
BatchCall ==
    /\ pc = "batch"
    /\ \E outs \in [1..Len(emails) -> LLMOutcomes] :
         /\ outcomes' = (IF llm THEN outs ELSE [i \in 1..Len(emails) |-> [kind |-> "none"]])
         /\ summaries' = summarize_emails_batch(llm, emails, outs)
    /\ pc' = "batch_done"
    /\ UNCHANGED << config, service, token_file, handler, fetched, emails, report_data,
                    calls, request, response, loop >>

NextBatch == BatchCall

SpecBatch == InitBatch /\ [][NextBatch]_vars

(***************************************************************************)
(* main.py: lifespan, the jobs of the scheduler and the event loop that    *)
(* runs them and the manual trigger                                        *)
(***************************************************************************)
\* the most times the scheduler starts one job
MaxRuns == 2

\* hours=24 of the job 'daily_email_report'
DailyReportHours == 24

\* seconds=60 of the job 'initial_report'
InitialReportSeconds == 60

\* the interval trigger of each job, in seconds
Interval ==
    [daily_email_report |-> DailyReportHours * 3600,
     initial_report |-> InitialReportSeconds]

\* the jobs lifespan adds, each with its first run time: an interval trigger
\* is due first one interval after the job was added; debug is
\* os.getenv('DEBUG') == 'True'
JobsAdded(debug) ==
    [j \in (IF debug THEN JobIds ELSE {"daily_email_report"}) |-> Interval[j]]

\* what a handler leaves alone when it only touches the scheduler or the loop
run_state == << config, service, token_file, handler, pc, fetched, emails, outcomes,
               summaries, report_data, calls, request, response >>

\* lifespan up to its yield: the scheduler is started and the jobs are added
Startup ==
    /\ DOMAIN next_run_time = {}
    /\ \E debug \in BOOLEAN : next_run_time' = JobsAdded(debug)
    /\ UNCHANGED << run_state, now, runs, ready, in_progress >>

\* the earliest of the times in S
Earliest(S) == CHOOSE x \in S : \A y \in S : x <= y

\* the scheduler wakes up at the next due time, once the event loop has
\* nothing left to start: every job due is submitted to the event loop and
\* its next run time moves one interval on
Wakeup ==
    /\ DOMAIN next_run_time # {}
    /\ LoopFree
    /\ ready = {}
    /\ \A j \in DOMAIN next_run_time : runs[j] < MaxRuns
    /\ LET due_time == Earliest({next_run_time[j] : j \in DOMAIN next_run_time})
           due == {j \in DOMAIN next_run_time : next_run_time[j] = due_time}
       IN  /\ now' = due_time
           /\ ready' = ready \cup due
           /\ next_run_time' = [j \in DOMAIN next_run_time |->
                                  IF j \in due THEN next_run_time[j] + Interval[j]
                                  ELSE next_run_time[j]]
    /\ UNCHANGED << run_state, runs, in_progress >>

\* POST /trigger-report/ arrives at the server, whatever the event loop is doing
Arrive ==
    /\ DOMAIN next_run_time # {}
    /\ "manual" \notin ready
    /\ ready' = ready \cup {"manual"}
    /\ UNCHANGED << run_state, timers, in_progress >>

\* the event loop starts something that is ready: the coroutine of a job, or
\* trigger_manual_report
RunReady(t) ==
    /\ t \in ready
    /\ Begin(IF t = "manual" THEN "manual" ELSE "scheduler")
    /\ ready' = ready \ {t}
    /\ runs' = IF t \in JobIds THEN [runs EXCEPT ![t] = @ + 1] ELSE runs
    /\ UNCHANGED << now, next_run_time >>

\* the application served by one event loop, with a sender that has its
\* credentials and a summarizer without a model
InitSched ==
    /\ Init
    /\ smtp_credentials = TRUE
    /\ llm = FALSE
    /\ token_file = "missing"

NextSched ==
    \/ Startup
    \/ Wakeup
    \/ Arrive
    \/ \E t \in JobIds \cup {"manual"} : RunReady(t)
    \/ Fetch
    \/ Summarize
    \/ NoRecipient
    \/ SendReport

SpecSched == InitSched /\ [][NextSched]_vars

(***************************************************************************)
(* The claims.                                                             *)
(***************************************************************************)
\* sub occurs in s as a run of consecutive tokens
Contains(s, sub) ==
    \E i \in 1..(Len(s) - Len(sub) + 1) : SubSeq(s, i, i + Len(sub) - 1) = sub

\* the summary starts with one of the error texts of the summarizer
HasErrorIndicator(summary) ==
    summary # <<>> /\ summary[1] \in {SummarizationFailed, BatchError}

\* the content summarize_emails_batch reads from a message
ContentOf(e) ==
    IF "snippet" \in DOMAIN e THEN e.snippet
    ELSE IF "content" \in DOMAIN e THEN e.content
    ELSE PyStr(<<>>)

\* the digest d was made from the message e: it carries e's subject, and a
\* summary that quotes the message quotes the start of e's content
DigestOf(d, e) ==
    /\ "subject" \in DOMAIN e => d.subject = e.subject
    /\ "subject" \notin DOMAIN e =>
         d.subject \in {PyStr(<<"No Subject">>), PyStr(<<"Error processing email">>)}
    /\ (d.summary # <<>> /\ d.summary[1] \in {LLMUnavailable, SummarizationFailed}) =>
         /\ IsStr(ContentOf(e))
         /\ SubSeq(d.summary, 2, Len(d.summary) - 1)
              = Slice(ContentOf(e).v, SummaryPrefixLen)

\* a pipeline run is over
RunOver == pc = "idle" /\ handler \in Triggers

\* the run's report went out: the one send of the run succeeded
ReportSent == Len(calls) = 1 /\ ~calls[1].raised /\ calls[1].result.success

\* C1: summarize_emails_batch returns one digest for each message of the
\* batch, the i-th digest made from the i-th message, whatever the model calls
\* do (all of them failing included).
C1_BatchCountAndOrder ==
    pc = "batch_done" =>
        /\ Len(summaries) = Len(emails)
        /\ \A i \in 1..Len(emails) : DigestOf(summaries[i], emails[i])

C1_Witness ==
    /\ pc = "batch_done"
    /\ llm
    /\ Len(emails) = 3
    /\ emails[1] # emails[2] /\ emails[2] # emails[3] /\ emails[1] # emails[3]
    /\ \A i \in 1..3 : outcomes[i].kind = "raise"
    /\ Len(summaries) = 3

\* C2: in a run with a model configured, the digest of each fetched message
\* whose model call failed is a fallback digest that starts with an error
\* text, and the digest of each message whose call answered carries the
\* answer, cleaned, under the message's subject, with no error text.
C2_FailureIsolated ==
    (pc \in {"send", "idle"} /\ handler \in Triggers /\ llm /\ report_data # PyNone) =>
        /\ Len(summaries) = Len(emails)
        /\ \A k \in 1..Len(emails) :
             /\ summaries[k].subject = emails[k].subject
             /\ outcomes[k].kind = "raise" =>
                  /\ HasErrorIndicator(summaries[k].summary)
                  /\ Contains(summaries[k].summary,
                              Slice(emails[k].snippet.v, SummaryPrefixLen))
             /\ outcomes[k].kind = "ok" =>
                  /\ summaries[k].summary = <<"w">>
                  /\ ~HasErrorIndicator(summaries[k].summary)

C2_Witness ==
    /\ pc = "send" /\ llm
    /\ Len(emails) = 3
    /\ outcomes[1].kind = "ok" /\ outcomes[2].kind = "raise" /\ outcomes[3].kind = "ok"
    /\ HasErrorIndicator(summaries[2].summary)
    /\ summaries[1].summary = <<"w">> /\ summaries[3].summary = <<"w">>

\* the mailbox answered the fetch with an empty listing
ZeroMessages == fetched.done /\ ~fetched.failed /\ fetched.listed = <<>>

\* C3, as claimed: a run whose fetch found zero messages ends with a report of
\* total count 0 and no digests, and with the sender invoked exactly once with
\* that report.
C3_EmptyRunAlwaysSends ==
    (RunOver /\ ZeroMessages) =>
        /\ report_data # PyNone
        /\ report_data.total_emails = 0 /\ report_data.summaries = <<>>
        /\ Len(calls) = 1 /\ calls[1].template_vars = report_data

\* C3, amended: a run whose fetch found zero messages ends with a report of
\* total count 0 and no digests; the sender is invoked exactly once with that
\* report when a recipient is configured, and not at all when none is.
C3_EmptyRunSendsIfRecipient ==
    (RunOver /\ ZeroMessages) =>
        /\ report_data # PyNone
        /\ report_data.total_emails = 0 /\ report_data.summaries = <<>>
        /\ ~Falsy(report_recipient) =>
             /\ Len(calls) = 1
             /\ calls[1].template_vars = report_data
             /\ calls[1].template_name = <<"summary_report.html">>
        /\ Falsy(report_recipient) => calls = <<>>

C3_Witness ==
    /\ RunOver /\ ZeroMessages
    /\ ~Falsy(report_recipient)
    /\ Len(calls) = 1 /\ calls[1].template_vars.total_emails = 0

\* C4: the total count of every assembled report is the number of fetched
\* messages and the number of digests of the report.
C4_CountMatchesDigests ==
    report_data # PyNone =>
        /\ report_data.total_emails = Len(emails)
        /\ report_data.total_emails = Len(report_data.summaries)

C4_Witness ==
    /\ report_data # PyNone
    /\ report_data.total_emails = 3
    /\ llm /\ outcomes[1].kind = "raise" /\ outcomes[2].kind = "ok"
    /\ Len(fetched.listed) = 3

\* C5: no exception leaves send_email; a send in which a step failed returns
\* success false; success true is returned only after login and the hand-over
\* of the message both completed.
C5_SendNeverRaises ==
    \A i \in 1..Len(calls) :
        /\ ~calls[i].raised
        /\ (calls[i].env.step # "none" \/ calls[i].env.quit # "ok") =>
             ~calls[i].result.success
        /\ calls[i].result.success =>
             {"connect", "starttls", "login", "send_message"} \subseteq calls[i].steps

C5_Witness ==
    /\ calls # <<>>
    /\ calls[1].env.step = "connect"
    /\ ~calls[1].raised /\ ~calls[1].result.success

\* to_email is no address: it has no @ or more than one, nothing before or
\* after the @, or no dot after it
NoAddress(a) ==
    \/ Cardinality({i \in 1..Len(a) : a[i] = "@"}) # 1
    \/ a[1] = "@"
    \/ a[Len(a)] = "@"
    \/ \A i \in 1..Len(a) : a[i] = "@" => \A j \in (i + 1)..Len(a) : a[j] # "."

\* C6: a POST /send-email/ whose to_email is no address is answered 422, and
\* send_email of the sender is not called for it.
C6_InvalidAddressRejected ==
    (handler = "send_email" /\ NoAddress(request.to_email)) =>
        /\ response.status = 422
        /\ calls = <<>>

C6_Witness ==
    /\ handler = "send_email"
    /\ request.to_email = <<"a", "a", ".", "a">>
    /\ response.status = 422

\* C7: for a validated POST /send-email/, a sender result with success false
\* is answered 500 with a detail that contains the sender's message (so it is
\* with no SMTP credentials configured), and 200 is answered only for a
\* sender result with success true.
C7_SendFailureIs500 ==
    (handler = "send_email" /\ calls # <<>>) =>
        /\ ~calls[1].raised
        /\ ~calls[1].result.success =>
             /\ response.status = 500
             /\ Contains(response.detail, calls[1].result.message)
        /\ response.status = 200 => calls[1].result.success
        /\ ~smtp_credentials => response.status = 500

C7_Witness ==
    /\ handler = "send_email"
    /\ ~smtp_credentials
    /\ calls # <<>>
    /\ calls[1].env.step = "login"
    /\ response.status = 500
    /\ Contains(response.detail, <<"SMTP authentication failed. Check email credentials.">>)

\* C8: with no report recipient configured, a pipeline run renders no template
\* and never calls the sender, whatever it fetched.
C8_NoRecipientNoSend ==
    (handler \in Triggers /\ Falsy(report_recipient)) => calls = <<>>

C8_Witness ==
    /\ RunOver
    /\ Falsy(report_recipient)
    /\ report_data # PyNone /\ report_data.total_emails > 0
    /\ calls = <<>>

\* C9, as claimed: the response of a manual run is a success response exactly
\* when the report was sent, and an error response otherwise.
C9_ManualResponseReflectsRun ==
    (RunOver /\ handler = "manual") =>
        /\ response.status = 200 <=> ReportSent
        /\ ~ReportSent => response.status >= 400

\* C10, as claimed: a run whose fetch raised or failed goes on with an empty
\* batch: with a recipient configured it ends with a report of total count 0
\* and one call of the sender.
C10_FetchFailureDegrades ==
    (RunOver /\ fetched.failed /\ ~Falsy(report_recipient)) =>
        /\ report_data # PyNone
        /\ report_data.total_emails = 0
        /\ Len(calls) = 1

\* the classes of failure of a send, by the first words of their message
FailureClasses ==
    { <<"SMTP authentication failed. Check email credentials.">>,
      <<"Invalid recipient email address: ">>,
      <<"SMTP error occurred: ">>,
      <<"Template rendering failed: ">>,
      <<"Unexpected error sending email: ">> }

\* C11, as claimed: the message of every failed send is that of one of the five
\* classes; a send whose login raised SMTPAuthenticationError returns the
\* authentication message and a send whose recipients were refused returns the
\* recipient message, never the message of a transport-level or unexpected
\* failure.
C11_FailureClassified ==
    \A i \in 1..Len(calls) :
        (~calls[i].raised /\ ~calls[i].result.success) =>
            /\ <<calls[i].result.message[1]>> \in FailureClasses
            /\ calls[i].env.exc = "SMTPAuthenticationError" =>
                 calls[i].result.message[1]
                   = "SMTP authentication failed. Check email credentials."
            /\ calls[i].env.exc = "SMTPRecipientsRefused" =>
                 calls[i].result.message[1] = "Invalid recipient email address: "

\* C12, as claimed: the fetcher is constructed without a service; a fetch on
\* a fetcher that has a service does not authenticate and keeps the service,
\* a fetch on one that has none authenticates; a fetch whose authentication
\* leaves the fetcher without a service returns an empty list and raises
\* nothing.
C12_LazyCachedAuth ==
    [][ /\ handler = "none" => (service = "None" /\ ~fetched.authenticated)
        /\ (pc = "fetch" /\ pc' # "fetch") =>
             /\ service # "None" => (~fetched'.authenticated /\ service' = service)
             /\ service = "None" => fetched'.authenticated
             /\ (fetched'.authenticated /\ service' = "None") =>
                  (~fetched'.raised /\ emails' = <<>>)
      ]_vars

\* the position in the server's listing of the message the dict e was made from
ListingIndex(e) ==
    CHOOSE i \in 1..Len(fetched.listed) : e.message_id = PyStr(<<ToString(i)>>)

\* C13: a fetch whose listing succeeded returns exactly the listed messages
\* whose extraction succeeded, each once, in the order of the listing; a
\* message whose extraction raised is left out and nothing else is.
C13_SkipsOnlyFailedMessage ==
    (fetched.done /\ ~fetched.failed) =>
        LET ok == {i \in 1..Len(fetched.listed) : fetched.listed[i] # "unreadable"}
        IN  /\ Len(emails) = Cardinality(ok)
            /\ \A k \in 1..Len(emails) :
                 /\ \E i \in ok : emails[k].message_id = PyStr(<<ToString(i)>>)
                 /\ emails[k].subject = (IF fetched.listed[ListingIndex(emails[k])] = "subject"
                                         THEN PyStr(<<"S", ToString(ListingIndex(emails[k]))>>)
                                         ELSE PyStr(<<"No Subject">>))
            /\ \A j, k \in 1..Len(emails) :
                 j < k => ListingIndex(emails[j]) < ListingIndex(emails[k])

C13_Witness ==
    /\ fetched.done /\ ~fetched.failed
    /\ fetched.listed = <<"subject", "unreadable", "bare">>
    /\ Len(emails) = 2
    /\ emails[1].message_id = PyStr(<<"1">>) /\ emails[2].message_id = PyStr(<<"3">>)

\* C14, as claimed: nothing serializes the runs: whenever one run has fetched
\* and not yet sent and another trigger has fired, the event loop can start
\* the other run, which then fetches while the first is still in progress.
C14_RunsMayOverlap ==
    (pc \in {"summarize", "send"} /\ ready # {}) => LoopFree

\* C14, amended: the runs are serialized by the event loop: at most one run is
\* in progress at any time, and while one is, a trigger that has fired waits
\* for it to end.
C14_RunsSerialized ==
    /\ in_progress <= 1
    /\ in_progress = 1 <=> pc # "idle"
    /\ in_progress = 1 => ~LoopFree

C14_Witness ==
    /\ in_progress = 1
    /\ handler = "scheduler" /\ pc = "summarize"
    /\ Len(emails) > 0
    /\ "manual" \in ready
    /\ now = DailyReportHours * 3600

\* C15: a send that names a template and whose template cannot be loaded or
\* rendered returns success false with the template message, raises nothing,
\* and completes no step of the SMTP exchange: no connection is opened and no
\* message is handed over.
C15_TemplateFailureClean ==
    \A i \in 1..Len(calls) :
        (calls[i].env.step = "template" /\ calls[i].template_name # <<>>
           /\ DOMAIN calls[i].template_vars # {}) =>
            /\ ~calls[i].raised
            /\ ~calls[i].result.success
            /\ calls[i].result.message[1] = "Template rendering failed: "
            /\ calls[i].steps = {}
            /\ ~calls[i].rendered

C15_Witness ==
    /\ handler = "send_email"
    /\ Len(calls) = 1
    /\ calls[1].env.step = "template"
    /\ calls[1].template_name = <<"email_template.html">>
    /\ calls[1].result.message = <<"Template rendering failed: ", "TemplateNotFound">>
    /\ response.status = 500

\* no model was called for the batch, and each message has its digest: the
\* message's subject, and the text of unavailability followed by the first
\* 200 characters of the content at most
PlaceholderDigests ==
    /\ Len(summaries) = Len(emails)
    /\ Len(outcomes) = Len(emails)
    /\ \A k \in 1..Len(emails) :
         /\ outcomes[k].kind = "none"
         /\ summaries[k].subject = emails[k].subject
         /\ summaries[k].summary[1] = LLMUnavailable
         /\ LET quoted == SubSeq(summaries[k].summary, 2, Len(summaries[k].summary) - 1)
                content == emails[k].snippet.v
            IN  /\ Len(quoted) <= SummaryPrefixLen
                /\ Len(quoted) <= Len(content)
                /\ quoted = SubSeq(content, 1, Len(quoted))
                /\ Len(content) <= SummaryPrefixLen => quoted = content

\* the fetch of the run returned
FetchReturned == fetched.done /\ ~fetched.raised

C17_ServiceFromValidCredentials ==
    /\ service \in {"None", "valid"}
    /\ (fetched.done /\ fetched.authenticated /\ ~fetched.raised /\ service = "None") =>
         fetched.failed

\* C18, as claimed: in debug mode the job 'initial_report' starts the pipeline
\* once, 60 seconds after startup and not before, and never a second time.
C18_InitialReportRunsOnce ==
    "initial_report" \in DOMAIN next_run_time =>
        /\ runs["initial_report"] <= 1
        /\ runs["initial_report"] = 1 => now >= InitialReportSeconds

\* the digest is a fallback entry of summarize_emails_batch
FallbackEntry(d) == d.summary # <<>> /\ d.summary[1] = BatchError

\* C19, as claimed: the subject of every digest, fallback entries included, is
\* the subject of its message, and 'No Subject' when the message has none.
C19_SubjectVerbatimOrNoSubject ==
    pc = "batch_done" =>
        \A i \in 1..Len(summaries) :
            summaries[i].subject = get(emails[i], "subject", PyStr(<<"No Subject">>))

\* C19, amended: the subject of every digest, fallback entries included, is
\* the subject of its message when the message has one; when it has none the
\* subject is 'No Subject', and 'Error processing email' in a fallback entry.
C19_SubjectVerbatim ==
    pc = "batch_done" =>
        /\ Len(summaries) = Len(emails)
        /\ \A i \in 1..Len(summaries) :
             /\ "subject" \in DOMAIN emails[i] => summaries[i].subject = emails[i].subject
             /\ "subject" \notin DOMAIN emails[i] =>
                  summaries[i].subject
                    = (IF FallbackEntry(summaries[i]) THEN PyStr(<<"Error processing email">>)
                       ELSE PyStr(<<"No Subject">>))

C19_Witness ==
    /\ pc = "batch_done"
    /\ llm
    /\ emails = << [subject |-> PyStr(<<"D">>), snippet |-> PyNone],
                   [snippet |-> PyNone],
                   [snippet |-> PyStr(<<"z">>)] >>
    /\ \A i \in 1..3 : outcomes[i].kind = "raise"
    /\ FallbackEntry(summaries[1]) /\ summaries[1].subject = PyStr(<<"D">>)
    /\ FallbackEntry(summaries[2]) /\ summaries[2].subject = PyStr(<<"Error processing email">>)
    /\ ~FallbackEntry(summaries[3]) /\ summaries[3].subject = PyStr(<<"No Subject">>)

====
